---- MODULE Spec2Model ----
(***************************************************************************)
(* Model of backend/routes/api/card_management.py: the create-flashcard,   *)
(* get-flashcard, get-today-cards and move-flashcard-set handlers running   *)
(* on worker threads that share one hierarchical document store.            *)
(*                                                                          *)
(* A string is a sequence of symbols.  A symbol is a one-character string,  *)
(* or a word ("users", "flashcards", a card face) that stands for a run of  *)
(* characters none of which is the separator "/".                           *)
(***************************************************************************)
EXTENDS Integers, Sequences, FiniteSets, TLC

(* ------------------------------ bounds --------------------------------- *)

\* Most set documents the store holds at once (creates beyond it are not issued).
MaxSets == 2

\* Longest folder string fed to the two folder normalisations.
MaxFolderLen == 3

(* ------------------------------ inputs --------------------------------- *)

Sep == "/"

Str0 == << >>

\* request values of the handlers
UserIDs == { <<"u">> }
FlashcardNames == { <<"n">> }
FolderInputs == { Str0, <<"a">> }
LocationInputs == { Str0, <<"a">>, <<"b", "/">> }

\* request values of the addressing functions taken alone
HashUsers == { <<"u">>, <<"u", "a">> }
HashNames == { <<"n">>, <<"a", "/", "n">> }
FolderSymbols == { "a", "/" }

RECURSIVE StringsUpTo(_, _)
StringsUpTo(S, n) ==
    IF n = 0 THEN { Str0 }
    ELSE LET shorter == StringsUpTo(S, n - 1)
         IN  shorter \cup { s \o <<c>> : s \in shorter, c \in S }

FolderStrings == StringsUpTo(FolderSymbols, MaxFolderLen)

(* ------------------------- strings and hashing ------------------------- *)

\* str.endswith("/")
EndsWithSep(s) == Len(s) > 0 /\ s[Len(s)] = Sep

Alphabet == << "/", "a", "b", "n", "u" >>

CharCode(c) == CHOOSE i \in 1..Len(Alphabet) : Alphabet[i] = c

Base == Len(Alphabet) + 1

\* hashlib.sha256(s.encode()).hexdigest() read as an integer: an injective
\* numbering of the strings over Alphabet stands for the digest.
RECURSIVE sha256_int(_)
sha256_int(s) ==
    IF s = Str0 THEN 1
    ELSE sha256_int(SubSeq(s, 1, Len(s) - 1)) * Base + CharCode(s[Len(s)])

DecimalDigits == << "0", "1", "2", "3", "4", "5", "6", "7", "8", "9" >>

\* str(n) of a non-negative integer
RECURSIVE str(_)
str(n) ==
    IF n < 10 THEN << DecimalDigits[n + 1] >>
    ELSE str(n \div 10) \o << DecimalDigits[(n % 10) + 1] >>

hash_to_numeric(input_string) == str(sha256_int(input_string))

\* create_flashcard without the normalisation of lines 88-90: the folder is
\* used as it was sent
CreateFolderNoSep(folder) == folder

\* create_flashcard: add "/" to folder if it does not end with it
CreateFolder(folder) ==
    IF ~EndsWithSep(folder) THEN folder \o <<Sep>> ELSE folder

\* move_flashcard_set: the same, except that "" stays ""
MoveLocation(location) ==
    IF ~EndsWithSep(location) /\ location # Str0
    THEN location \o <<Sep>> ELSE location

CreateID(user_id, folder, flashcard_name) ==
    hash_to_numeric(user_id \o CreateFolder(folder) \o flashcard_name)

GetID(user_id, flashcard_name) == hash_to_numeric(user_id \o flashcard_name)

FlashcardsRoot(user_id) == <<Sep, "users", Sep>> \o user_id \o <<Sep, "flashcards">>

CreateAddress(user_id, folder, flashcard_name) ==
    FlashcardsRoot(user_id) \o <<Sep>> \o CreateFolder(folder)
        \o CreateID(user_id, folder, flashcard_name)

GetAddress(user_id, flashcard_name) ==
    FlashcardsRoot(user_id) \o <<Sep>> \o GetID(user_id, flashcard_name)

MoveFolderAddress(user_id, location) ==
    FlashcardsRoot(user_id) \o <<Sep>> \o MoveLocation(location)

MoveSetAddress(user_id, location, flashcard_id) ==
    MoveFolderAddress(user_id, location) \o flashcard_id

(* ------------------------------ the store ------------------------------ *)

\* The segments of a "/"-delimited address; empty segments name nothing.
RECURSIVE Segments(_)
Segments(s) ==
    IF s = Str0 THEN << >>
    ELSE LET i == CHOOSE k \in 1..(Len(s) + 1) :
                      /\ k = Len(s) + 1 \/ s[k] = Sep
                      /\ \A j \in 1..(k - 1) : s[j] # Sep
             head == SubSeq(s, 1, i - 1)
             rest == IF i > Len(s) THEN Str0 ELSE SubSeq(s, i + 1, Len(s))
         IN  IF head = Str0 THEN Segments(rest)
             ELSE <<head>> \o Segments(rest)

IsPrefix(p, q) == Len(p) <= Len(q) /\ SubSeq(q, 1, Len(p)) = p

Suffix(p, q) == SubSeq(q, Len(p) + 1, Len(q))

\* A document is a tree: a function from the paths of its set documents
\* (relative to its own address) to those set documents.  A set document
\* itself is the tree whose only path is the empty one.
None == << >>

Subtree(tree, p) ==
    [ r \in { Suffix(p, q) : q \in { x \in DOMAIN tree : IsPrefix(p, x) } }
        |-> tree[p \o r] ]

Without(tree, p) ==
    [ q \in { x \in DOMAIN tree : ~IsPrefix(p, x) } |-> tree[q] ]

Graft(tree, p, sub) ==
    [ q \in DOMAIN Without(tree, p) \cup { p \o r : r \in DOMAIN sub } |->
        IF IsPrefix(p, q) THEN sub[Suffix(p, q)] ELSE tree[q] ]

\* db.get(address): the document at the address, None when nothing is there
Get(d, address) == Subtree(d, Segments(address))

\* db.save(address, document): the document replaces what the address held
Save(d, address, document) == Graft(d, Segments(address), document)

\* dict.keys(), dict[key], and dict.copy() followed by pop(key, None)
Keys(tree) == { q[1] : q \in { x \in DOMAIN tree : x # << >> } }
Item(tree, key) == Subtree(tree, <<key>>)
Pop(tree, key) == Without(tree, <<key>>)

IsSet(tree) == DOMAIN tree = { << >> }

SetDocument(flashcard_id, flashcard_name, flashcard_description, cards) ==
    [ r \in { << >> } |->
        [ flashcardID |-> flashcard_id,
          flashcardName |-> flashcard_name,
          flashcardDescription |-> flashcard_description,
          cards |-> cards ] ]

IsNone(document) == DOMAIN document = { }

(* ------------------------------- cards --------------------------------- *)

\* reviewStatus holds the box (the integer part of the review status),
\* lastReview the day number of the last review
Cards1 == << [ front |-> "F1", back |-> "B1", reviewStatus |-> 0, lastReview |-> 1 ] >>
Cards2 == << [ front |-> "F2", back |-> "B2", reviewStatus |-> 1, lastReview |-> 1 ] >>

\* description and cards of a create request
Payloads == { << <<"d1">>, Cards1 >>, << <<"d2">>, Cards2 >> }

\* the days on which get-today-cards is asked
Dates == { 2 }

RECURSIVE Pow2(_)
Pow2(n) == IF n = 0 THEN 1 ELSE 2 * Pow2(n - 1)

\* Review Scheduler: a card in box 0 is always due, another one when
\* 2^box days have passed since its last review
IsDue(card, today) ==
    \/ card.reviewStatus = 0
    \/ today >= card.lastReview + Pow2(card.reviewStatus)

\* FlashcardCollection(flashcards).today_card_list: the due cards of every
\* set of the hierarchy, each with the path of its set
today_card_list(flashcards, today) ==
    UNION { { [ set |-> q, card |-> flashcards[q].cards[i] ] :
                i \in { j \in 1..Len(flashcards[q].cards) :
                            IsDue(flashcards[q].cards[j], today) } } :
            q \in DOMAIN flashcards }

(* ------------------------------- state --------------------------------- *)

VARIABLES
    db,              \* the store: the tree of every stored set document
    workers,         \* how many worker threads serve requests
    pc,              \* per worker: the db call its handler is about to make
    req,             \* per worker: the request it serves, or served last
    flashcard_data,  \* per worker: move_flashcard_set's copy of the source folder
    resp,            \* per worker: the response to req, status 0 while in flight
    probe            \* the addressing functions taken alone: inputs and results

vars == << db, workers, pc, req, flashcard_data, resp, probe >>

Procs == { 1, 2 }

NoReq ==
    [ op |-> "none", userID |-> Str0, flashcardName |-> Str0,
      flashcardDescription |-> Str0, folder |-> Str0, cards |-> << >>,
      today |-> 0, currentLocation |-> Str0, flashcardID |-> Str0,
      moveLocation |-> Str0 ]

NoResp == [ status |-> 0, body |-> "" ]

NoProbe == [ op |-> "none", userID |-> Str0, folder |-> Str0, flashcardName |-> Str0,
             path |-> Str0, id |-> Str0 ]

\* the ids create-flashcard gives to the sets of the request values
SetIDs == { CreateID(u, f, n) : u \in UserIDs, f \in FolderInputs, n \in FlashcardNames }

\* the set documents in the store, and the create requests about to add one
Stored == Cardinality(DOMAIN db) + Cardinality({ q \in Procs : pc[q] = "create_save" })

\* One worker serves the requests one after the other, until two requests
\* arrive together and a second worker serves one of them (Race).
Init ==
    /\ db = None
    /\ workers = 1
    /\ pc = [ p \in Procs |-> "idle" ]
    /\ req = [ p \in Procs |-> NoReq ]
    /\ flashcard_data = [ p \in Procs |-> None ]
    /\ resp = [ p \in Procs |-> NoResp ]
    /\ probe = << NoProbe, NoProbe >>

\* where a handler that has sent its response leaves its worker
Served == IF workers = 1 THEN "idle" ELSE "served"

(* --------------------------- create-flashcard -------------------------- *)

\* create_flashcard without the test of line 95: the set is saved whether or
\* not the address holds one
CreateGetNoCheck(p, user_id, flashcard_name, flashcard_description, folder, cards) ==
    /\ p \in 1..workers
    /\ pc[p] = "idle"
    /\ Stored < MaxSets
           \/ ~IsNone(Get(db, CreateAddress(user_id, folder, flashcard_name)))
    /\ req' = [ req EXCEPT ![p] =
           [ NoReq EXCEPT !.op = "create", !.userID = user_id,
                          !.flashcardName = flashcard_name,
                          !.flashcardDescription = flashcard_description,
                          !.folder = folder, !.cards = cards ] ]
    /\ pc' = [ pc EXCEPT ![p] = "create_save" ]
    /\ resp' = [ resp EXCEPT ![p] = NoResp ]
    /\ UNCHANGED << db, workers, flashcard_data, probe >>

\* lines 83-95 and, the set being there already, 105-106
CreateGet(p, user_id, flashcard_name, flashcard_description, folder, cards) ==
    /\ p \in 1..workers
    /\ pc[p] = "idle"
    /\ LET address == CreateAddress(user_id, folder, flashcard_name)
       IN  /\ Stored < MaxSets \/ ~IsNone(Get(db, address))
           /\ req' = [ req EXCEPT ![p] =
                  [ NoReq EXCEPT !.op = "create", !.userID = user_id,
                                 !.flashcardName = flashcard_name,
                                 !.flashcardDescription = flashcard_description,
                                 !.folder = folder, !.cards = cards ] ]
           /\ IF IsNone(Get(db, address))
              THEN /\ pc' = [ pc EXCEPT ![p] = "create_save" ]
                   /\ resp' = [ resp EXCEPT ![p] = NoResp ]
              ELSE /\ pc' = [ pc EXCEPT ![p] = Served ]
                   /\ resp' = [ resp EXCEPT ![p] = [ status |-> 200, body |-> "success" ] ]
    /\ UNCHANGED << db, workers, flashcard_data, probe >>

\* lines 96-106
CreateSave(p) ==
    /\ pc[p] = "create_save"
    /\ LET r == req[p]
           flashcard_id == CreateID(r.userID, r.folder, r.flashcardName)
       IN  db' = Save(db, CreateAddress(r.userID, r.folder, r.flashcardName),
                      SetDocument(flashcard_id, r.flashcardName,
                                  r.flashcardDescription, r.cards))
    /\ pc' = [ pc EXCEPT ![p] = Served ]
    /\ resp' = [ resp EXCEPT ![p] = [ status |-> 200, body |-> "success" ] ]
    /\ UNCHANGED << workers, req, flashcard_data, probe >>

\* lines 107-109: db.save raises, nothing is written
CreateSaveFails(p) ==
    /\ pc[p] = "create_save"
    /\ pc' = [ pc EXCEPT ![p] = Served ]
    /\ resp' = [ resp EXCEPT ![p] = [ status |-> 500, body |-> "exception" ] ]
    /\ UNCHANGED << db, workers, req, flashcard_data, probe >>

(* ---------------------------- get-flashcard ---------------------------- *)

\* lines 137-141
GetFlashcard(p, user_id, flashcard_name) ==
    /\ p \in 1..workers
    /\ pc[p] = "idle"
    /\ req' = [ req EXCEPT ![p] =
           [ NoReq EXCEPT !.op = "get", !.userID = user_id,
                          !.flashcardName = flashcard_name ] ]
    /\ resp' = [ resp EXCEPT ![p] =
           [ status |-> 200, body |-> Get(db, GetAddress(user_id, flashcard_name)) ] ]
    /\ pc' = [ pc EXCEPT ![p] = Served ]
    /\ UNCHANGED << db, workers, flashcard_data, probe >>

(* --------------------------- get-today-cards --------------------------- *)

\* lines 175-183
GetTodayCards(p, user_id, today) ==
    /\ p \in 1..workers
    /\ pc[p] = "idle"
    /\ req' = [ req EXCEPT ![p] =
           [ NoReq EXCEPT !.op = "today", !.userID = user_id, !.today = today ] ]
    /\ LET flashcards == Get(db, FlashcardsRoot(user_id))
       IN  resp' = [ resp EXCEPT ![p] =
               IF IsNone(flashcards)
               THEN [ status |-> 200, body |-> { "User has no flashcards" } ]
               ELSE [ status |-> 200, body |-> today_card_list(flashcards, today) ] ]
    /\ pc' = [ pc EXCEPT ![p] = Served ]
    /\ UNCHANGED << db, workers, flashcard_data, probe >>

(* -------------------------- move-flashcard-set ------------------------- *)

\* move_flashcard_set without the key test of line 225
MoveGetNoKeyCheck(p, user_id, current_location, flashcard_id, move_location) ==
    /\ p \in 1..workers
    /\ pc[p] = "idle"
    /\ req' = [ req EXCEPT ![p] =
           [ NoReq EXCEPT !.op = "move", !.userID = user_id,
                          !.currentLocation = current_location,
                          !.flashcardID = flashcard_id,
                          !.moveLocation = move_location ] ]
    /\ LET data == Get(db, MoveFolderAddress(user_id, current_location))
       IN  IF IsNone(data)
           THEN /\ resp' = [ resp EXCEPT ![p] = [ status |-> 400, body |-> "does not exist" ] ]
                /\ pc' = [ pc EXCEPT ![p] = Served ]
                /\ UNCHANGED flashcard_data
           ELSE /\ resp' = [ resp EXCEPT ![p] = NoResp ]
                /\ pc' = [ pc EXCEPT ![p] = "move_save_src" ]
                /\ flashcard_data' = [ flashcard_data EXCEPT ![p] = data ]
    /\ UNCHANGED << db, workers, probe >>

\* lines 213-229
MoveGet(p, user_id, current_location, flashcard_id, move_location) ==
    /\ p \in 1..workers
    /\ pc[p] = "idle"
    /\ req' = [ req EXCEPT ![p] =
           [ NoReq EXCEPT !.op = "move", !.userID = user_id,
                          !.currentLocation = current_location,
                          !.flashcardID = flashcard_id,
                          !.moveLocation = move_location ] ]
    /\ LET data == Get(db, MoveFolderAddress(user_id, current_location))
       IN  IF IsNone(data) \/ flashcard_id \notin Keys(data)
           THEN /\ resp' = [ resp EXCEPT ![p] = [ status |-> 400, body |-> "does not exist" ] ]
                /\ pc' = [ pc EXCEPT ![p] = Served ]
                /\ UNCHANGED flashcard_data
           ELSE /\ resp' = [ resp EXCEPT ![p] = NoResp ]
                /\ pc' = [ pc EXCEPT ![p] = "move_save_src" ]
                /\ flashcard_data' = [ flashcard_data EXCEPT ![p] = data ]
    /\ UNCHANGED << db, workers, probe >>

\* move_flashcard_set saving the copy of the source folder without the pop
\* of line 233
MoveSaveSrcKeeps(p) ==
    /\ pc[p] = "move_save_src"
    /\ db' = Save(db, MoveFolderAddress(req[p].userID, req[p].currentLocation),
                  flashcard_data[p])
    /\ pc' = [ pc EXCEPT ![p] = "move_save_dst" ]
    /\ UNCHANGED << workers, req, flashcard_data, resp, probe >>

\* lines 231-234
MoveSaveSrc(p) ==
    /\ pc[p] = "move_save_src"
    /\ LET r == req[p]
           edited_flashcard_data == Pop(flashcard_data[p], r.flashcardID)
       IN  db' = Save(db, MoveFolderAddress(r.userID, r.currentLocation),
                      edited_flashcard_data)
    /\ pc' = [ pc EXCEPT ![p] = "move_save_dst" ]
    /\ UNCHANGED << workers, req, flashcard_data, resp, probe >>

\* move_flashcard_set saving the set under an id computed anew for the
\* folder it moves to, instead of under flashcard_id as line 238 does
MoveSaveDstRehashes(p) ==
    /\ pc[p] = "move_save_dst"
    /\ LET r == req[p]
           moved == Item(flashcard_data[p], r.flashcardID)
           new_id == IF IsSet(moved)
                     THEN CreateID(r.userID, r.moveLocation, moved[<< >>].flashcardName)
                     ELSE r.flashcardID
       IN  db' = Save(db, MoveSetAddress(r.userID, r.moveLocation, new_id), moved)
    /\ pc' = [ pc EXCEPT ![p] = Served ]
    /\ flashcard_data' = [ flashcard_data EXCEPT ![p] = None ]
    /\ resp' = [ resp EXCEPT ![p] = [ status |-> 200, body |-> "has been moved" ] ]
    /\ UNCHANGED << workers, req, probe >>

\* lines 236-243
MoveSaveDst(p) ==
    /\ pc[p] = "move_save_dst"
    /\ LET r == req[p]
       IN  db' = Save(db, MoveSetAddress(r.userID, r.moveLocation, r.flashcardID),
                      Item(flashcard_data[p], r.flashcardID))
    /\ pc' = [ pc EXCEPT ![p] = Served ]
    /\ flashcard_data' = [ flashcard_data EXCEPT ![p] = None ]
    /\ resp' = [ resp EXCEPT ![p] = [ status |-> 200, body |-> "has been moved" ] ]
    /\ UNCHANGED << workers, req, probe >>

\* lines 231-238: one of the two db.save calls raises, or the worker dies
\* before making it; nothing catches it and the handler is not resumed
MoveSaveFails(p) ==
    /\ pc[p] \in { "move_save_src", "move_save_dst" }
    /\ pc' = [ pc EXCEPT ![p] = Served ]
    /\ flashcard_data' = [ flashcard_data EXCEPT ![p] = None ]
    /\ resp' = [ resp EXCEPT ![p] =
           [ status |-> 500,
             body |-> IF pc[p] = "move_save_src" THEN "source not saved"
                      ELSE "destination not saved" ] ]
    /\ UNCHANGED << db, workers, req, probe >>

\* two requests arrive together: the second worker joins, and each of the
\* two workers serves one of them
Race ==
    /\ workers = 1
    /\ \A p \in Procs : pc[p] = "idle"
    /\ workers' = Cardinality(Procs)
    /\ req' = [ p \in Procs |-> NoReq ]
    /\ resp' = [ p \in Procs |-> NoResp ]
    /\ UNCHANGED << db, pc, flashcard_data, probe >>

Next ==
    \/ \E p \in Procs, u \in UserIDs, n \in FlashcardNames, f \in FolderInputs,
          x \in Payloads : CreateGet(p, u, n, x[1], f, x[2])
    \/ \E p \in Procs : CreateSave(p)
    \/ \E p \in Procs : CreateSaveFails(p)
    \/ \E p \in Procs, u \in UserIDs, n \in FlashcardNames : GetFlashcard(p, u, n)
    \/ \E p \in Procs, u \in UserIDs, t \in Dates : GetTodayCards(p, u, t)
    \/ \E p \in Procs, u \in UserIDs, c \in LocationInputs, i \in SetIDs,
          m \in LocationInputs : MoveGet(p, u, c, i, m)
    \/ \E p \in Procs : MoveSaveSrc(p)
    \/ \E p \in Procs : MoveSaveDst(p)
    \/ \E p \in Procs : MoveSaveFails(p)
    \/ Race

Spec == Init /\ [][Next]_vars

(* ---------------------- the addressing functions alone ------------------ *)

ProbeInputs ==
    { [ NoProbe EXCEPT !.op = "input", !.userID = u, !.folder = f, !.flashcardName = n ] :
        u \in HashUsers, f \in FolderStrings, n \in HashNames }

InitAddressing ==
    /\ db = None
    /\ workers = 1
    /\ pc = [ p \in Procs |-> "idle" ]
    /\ req = [ p \in Procs |-> NoReq ]
    /\ flashcard_data = [ p \in Procs |-> None ]
    /\ resp = [ p \in Procs |-> NoResp ]
    /\ probe \in ProbeInputs \X ProbeInputs

\* create_flashcard, lines 83-92: the folder as normalised and the id
ProbeCreate(i) ==
    /\ probe[i].op = "input"
    /\ LET r == probe[i]
       IN  probe' = [ probe EXCEPT ![i] =
               [ r EXCEPT !.op = "create",
                          !.path = CreateFolder(r.folder),
                          !.id = CreateID(r.userID, r.folder, r.flashcardName) ] ]
    /\ UNCHANGED << db, workers, pc, req, flashcard_data, resp >>

\* move_flashcard_set, lines 213-221: a location as normalised; the id is
\* the one the request gives
ProbeMove(i) ==
    /\ probe[i].op = "input"
    /\ LET r == probe[i]
       IN  probe' = [ probe EXCEPT ![i] =
               [ r EXCEPT !.op = "move", !.path = MoveLocation(r.folder) ] ]
    /\ UNCHANGED << db, workers, pc, req, flashcard_data, resp >>

NextAddressing ==
    \/ \E i \in 1..2 : ProbeCreate(i)
    \/ \E i \in 1..2 : ProbeMove(i)

SpecAddressing == InitAddressing /\ [][NextAddressing]_vars

(* ------------------------------- claims -------------------------------- *)

\* the requests are served one after the other
Serial == workers = 1

Present(d, address) == ~IsNone(Get(d, address))

\* worker p takes a request and makes its first db call
Starts(p) ==
    /\ pc[p] = "idle"
    /\ req'[p].op # "none"
    /\ << pc'[p], req'[p], resp'[p] >> # << pc[p], req[p], resp[p] >>

\* worker p has answered its request with the status
Answered(p, op, status) ==
    /\ pc[p] \in { "idle", "served" }
    /\ req[p].op = op
    /\ resp[p].status = status

CreateAddr(r) == CreateAddress(r.userID, r.folder, r.flashcardName)

CreateDoc(r) ==
    SetDocument(CreateID(r.userID, r.folder, r.flashcardName), r.flashcardName,
                r.flashcardDescription, r.cards)

SourceFolder(r) == MoveFolderAddress(r.userID, r.currentLocation)
TargetFolder(r) == MoveFolderAddress(r.userID, r.moveLocation)
OldAddr(r) == MoveSetAddress(r.userID, r.currentLocation, r.flashcardID)
NewAddr(r) == MoveSetAddress(r.userID, r.moveLocation, r.flashcardID)

MovePreservesAnyTarget ==
    [][ \A p \in Procs :
          ( /\ Serial
            /\ pc[p] = "move_save_dst"
            /\ Answered(p, "move", 200)' )
          => /\ Get(db', NewAddr(req[p])) = Item(flashcard_data[p], req[p].flashcardID)
             /\ IsNone(Get(db', OldAddr(req[p]))) ]_vars

\* C2, amended: the same for any target folder that is not the current
\* folder.  The copy the handler took is the store's content before the
\* move, and the move puts it at the new address and leaves the old empty.
MovePreserves ==
    /\ [] ( \A p \in Procs :
              ( Serial /\ pc[p] = "move_save_src" )
              => /\ IsSet(Get(db, OldAddr(req[p])))
                 /\ Item(flashcard_data[p], req[p].flashcardID) = Get(db, OldAddr(req[p])) )
    /\ [][ \A p \in Procs :
             ( /\ Serial
               /\ pc[p] = "move_save_dst"
               /\ Answered(p, "move", 200)'
               /\ Segments(SourceFolder(req[p])) # Segments(TargetFolder(req[p])) )
             => /\ Get(db', NewAddr(req[p])) = Item(flashcard_data[p], req[p].flashcardID)
                /\ IsNone(Get(db', OldAddr(req[p]))) ]_vars

\* a move to another folder has been answered with success
MovePreservesWitness ==
    \E p \in Procs :
        /\ Serial
        /\ Answered(p, "move", 200)
        /\ Segments(SourceFolder(req[p])) # Segments(TargetFolder(req[p]))
        /\ IsSet(Get(db, NewAddr(req[p])))

\* C3: a move interrupted between the save of the reduced source folder and
\* the save at the destination leaves the set at exactly one of the two
\* locations, never at neither.
MoveAtomicUnderFailure ==
    \A p \in Procs :
        ( /\ Serial
          /\ Answered(p, "move", 500)
          /\ resp[p].body = "destination not saved" )
        => Cardinality({ a \in { Segments(OldAddr(req[p])), Segments(NewAddr(req[p])) } :
                           ~IsNone(Subtree(db, a)) }) = 1

\* C4: of two create-flashcard requests racing for one address exactly one
\* writes: a create never saves to an address that holds a document.
SingleWriter ==
    [][ \A p \in Procs :
          ( /\ pc[p] = "create_save"
            /\ Answered(p, "create", 200)' )
          => IsNone(Get(db, CreateAddr(req[p]))) ]_vars

\* C5: while a move of a set is between its two saves, no other request
\* reads a store in which the set is at neither the old nor the new address.
NoHalfMoveObserved ==
    [][ \A p, q \in Procs :
          ( /\ p # q
            /\ pc[p] = "move_save_dst"
            /\ Starts(q) )
          => Present(db, OldAddr(req[p])) \/ Present(db, NewAddr(req[p])) ]_vars

\* C6: a move whose current folder is absent or does not have the
\* flashcardID as a key answers with the not-found error, leaves the store
\* as it is and issues no save.
MoveNotFound ==
    [][ \A p \in Procs :
          ( /\ Starts(p)
            /\ req'[p].op = "move"
            /\ LET data == Get(db, SourceFolder(req'[p]))
               IN  IsNone(data) \/ req'[p].flashcardID \notin Keys(data) )
          => /\ resp'[p].status = 400
             /\ db' = db
             /\ pc'[p] \notin { "move_save_src", "move_save_dst" } ]_vars

\* a move has been refused although its current folder holds sets
MoveNotFoundWitness ==
    \E p \in Procs :
        /\ Answered(p, "move", 400)
        /\ Present(db, SourceFolder(req[p]))
        /\ req[p].flashcardID \notin Keys(Get(db, SourceFolder(req[p])))

\* C7: every stored set document has as flashcardID the id it was created
\* with, which is also the last segment of the address it is stored under.
SetIdentity ==
    \A q \in DOMAIN db :
        /\ db[q].flashcardID = q[Len(q)]
        /\ \E f \in FolderInputs :
               db[q].flashcardID = CreateID(q[2], f, db[q].flashcardName)

\* a set is stored in another folder than the one it was created in
SetIdentityWitness ==
    \E q \in DOMAIN db : \E f \in FolderInputs :
        /\ db[q].flashcardID = CreateID(q[2], f, db[q].flashcardName)
        /\ q # Segments(CreateAddress(q[2], f, db[q].flashcardName))

\* C10: get-flashcard(userID, flashcardName) after a create-flashcard of
\* that user and name returns the set document the create stored.
CreateGetRoundTrip ==
    [][ \A p \in Procs :
          ( /\ Serial
            /\ Answered(p, "create", 200)
            /\ Starts(p)
            /\ req'[p].op = "get"
            /\ req'[p].userID = req[p].userID
            /\ req'[p].flashcardName = req[p].flashcardName )
          => resp'[p].body = Get(db, CreateAddr(req[p])) ]_vars

\* C8: in create-flashcard and in move-flashcard-set alike, the empty folder
\* is normalised to the empty path, and a non-empty folder is made to end
\* with exactly one separator.
FolderNormalized ==
    \A i \in 1..2 :
        probe[i].op \in { "create", "move" } =>
            IF probe[i].folder = Str0
            THEN probe[i].path = Str0
            ELSE /\ EndsWithSep(probe[i].path)
                 /\ ~EndsWithSep(SubSeq(probe[i].path, 1, Len(probe[i].path) - 1))

\* C9: the id of a set is the same for the same (owner, normalised folder,
\* name) and different for different ones.
IdsDiscriminate ==
    (probe[1].op = "create" /\ probe[2].op = "create") =>
        ( probe[1].id = probe[2].id
            <=> /\ probe[1].userID = probe[2].userID
                /\ probe[1].path = probe[2].path
                /\ probe[1].flashcardName = probe[2].flashcardName )

\* C11: the result of create-flashcard tells whether a write occurred: the
\* response of a create that writes its set differs from the response of a
\* create that found a document at its address (and wrote nothing), and
\* both are normal results.
CreateReportsWrite ==
    [][ \A p, q \in Procs :
          ( /\ p # q
            /\ pc[p] = "create_save"
            /\ Answered(p, "create", 200)'
            /\ Answered(q, "create", 200)
            /\ Present(db, CreateAddr(req[q]))
            /\ Get(db, CreateAddr(req[q])) # CreateDoc(req[q]) )
          => resp'[p].body # resp[q].body ]_vars

\* C12: for a user with nothing stored under /users/{userID}/flashcards,
\* get-today-cards answers without error with a collection of due cards
\* that has no element, and leaves the store as it is.
EmptyHierarchy ==
    [][ \A p \in Procs :
          ( /\ Starts(p)
            /\ req'[p].op = "today"
            /\ IsNone(Get(db, FlashcardsRoot(req'[p].userID))) )
          => /\ resp'[p].status = 200
             /\ resp'[p].body = { }
             /\ db' = db ]_vars

\* C13: a move of set S from folder A to another folder B, served without
\* interleaving, changes only S's entry.  Its first save takes S's old
\* address out of the store and its second save adds S's new address; at
\* both saves every set stored at another address, in A, below A or in B,
\* stays where it is with its content, so the number of stored sets after
\* the move is the number before it.
MoveFrame ==
    [][ \A p \in Procs :
          ( /\ Serial
            /\ Segments(SourceFolder(req[p])) # Segments(TargetFolder(req[p])) )
          => /\ ( pc[p] = "move_save_src" /\ pc'[p] = "move_save_dst" )
                => /\ DOMAIN db' = DOMAIN db \ { Segments(OldAddr(req[p])) }
                   /\ \A q \in DOMAIN db' : db'[q] = db[q]
             /\ ( pc[p] = "move_save_dst" /\ Answered(p, "move", 200)' )
                => /\ \A q \in DOMAIN db : q \in DOMAIN db' /\ db'[q] = db[q]
                   /\ DOMAIN db' = DOMAIN db \cup { Segments(NewAddr(req[p])) }
                   /\ Cardinality(DOMAIN db') = Cardinality(DOMAIN db) + 1 ]_vars

\* the id create-flashcard gives to the set of request r
CreatedID(r) == CreateID(r.userID, r.folder, r.flashcardName)

\* C14: a create that writes a new set T into folder A while a move of
\* another set S out of A is between its read of A and its save of the
\* reduced A is not lost: T is still stored in A after that save.
NoLostCreate ==
    [][ \A p, q \in Procs :
          ( /\ p # q
            /\ req[p].op = "move"
            /\ pc[p] = "move_save_src"
            /\ pc'[p] = "move_save_dst"
            /\ Answered(q, "create", 200)
            /\ Segments(CreateAddr(req[q]))
                 = Segments(SourceFolder(req[p])) \o << CreatedID(req[q]) >>
            /\ CreatedID(req[q]) # req[p].flashcardID
            /\ CreatedID(req[q]) \notin Keys(flashcard_data[p])
            /\ Get(db, CreateAddr(req[q])) = CreateDoc(req[q]) )
          => Get(db', CreateAddr(req[q])) = CreateDoc(req[q]) ]_vars

\* C15: two moves of the same set S out of the same folder A to different
\* folders B and C, served together, do not duplicate S: when both have
\* answered, at most one of them reports success and S is not stored both
\* in B and in C.
NoDuplicateMove ==
    \A p, q \in Procs :
        ( /\ p # q
          /\ Answered(p, "move", resp[p].status)
          /\ Answered(q, "move", resp[q].status)
          /\ pc[p] = "served"
          /\ pc[q] = "served"
          /\ req[p].userID = req[q].userID
          /\ req[p].flashcardID = req[q].flashcardID
          /\ Segments(SourceFolder(req[p])) = Segments(SourceFolder(req[q]))
          /\ Segments(TargetFolder(req[p])) # Segments(TargetFolder(req[q]))
          /\ Segments(TargetFolder(req[p])) # Segments(SourceFolder(req[p]))
          /\ Segments(TargetFolder(req[q])) # Segments(SourceFolder(req[q])) )
        => /\ ~ ( resp[p].status = 200 /\ resp[q].status = 200 )
           /\ ~ ( Present(db, NewAddr(req[p])) /\ Present(db, NewAddr(req[q])) )

====
